---- MODULE Spec2Model ----
(***************************************************************************)
(* A model of the bencode package (src/bencode/bencode.go): the token      *)
(* scanner, the recursive list/dictionary parser, the encoder, and the     *)
(* coercion of decoded values into typed destinations (FillData).          *)
(* Floating-point values and []byte are left out.                          *)
(*                                                                         *)
(* A byte string is a TLA+ string; a byte is a string of length one.       *)
(* A Go value (interface{}) is a record [t |-> kind, v |-> payload].       *)
(* An error is a sequence of message parts: <<>> is the nil error, and     *)
(* fmt.Errorf("prefix: %s", err) puts the prefix in front of the parts.    *)
(***************************************************************************)
EXTENDS Integers, Sequences, FiniteSets, TLC

VARIABLES
    val,      \* the value handed to EncodeToString (NoValue: none)
    encOut,   \* the string EncodeToString returned
    encErr,   \* the error EncodeToString returned
    input,    \* the bytes behind the Decoder's reader
    reader,   \* the Decoder's breader (dec.r)
    stack,    \* the active parse_list / parse_dict calls, outermost first
    pc,       \* where the program is
    result,   \* the value Decode returned
    err,      \* the error Decode returned
    w,        \* the io.Writer handed to Encode (NoValue: none)
    out_intfc,  \* what the pointer handed to FillData points to
    in_intfc,   \* the value handed to FillData
    fillErr,    \* the error FillData returned
    own,      \* TRUE: the caller made the Decoder with NewDecoder and calls
              \* Decoder.Decode itself; FALSE: it calls DecodeString
    calls     \* what the caller's own Decoder returned and how far the
              \* input was read then, one entry per Decoder.Decode call

vars == <<val, encOut, encErr, input, reader, stack, pc, result, err,
          w, out_intfc, in_intfc, fillErr, own, calls>>

fillVars == <<out_intfc, in_intfc, fillErr>>

-----------------------------------------------------------------------------
(* Bytes *)

\* Runs of consecutive ASCII characters, each with the code of its first one.
AsciiRuns == << <<32, " ">>,
                <<43, "+">>,
                <<45, "-./0123456789:">>,
                <<65, "ABCDEFGHIJKLMNOPQRSTUVWXYZ">>,
                <<95, "_">>,
                <<97, "abcdefghijklmnopqrstuvwxyz">> >>

Byte(s, i) == SubSeq(s, i, i)

Chars == UNION {{Byte(AsciiRuns[r][2], i) : i \in 1..Len(AsciiRuns[r][2])} :
                r \in 1..Len(AsciiRuns)}

\* The numeric value of a byte.
Ord == [c \in Chars |->
          LET r == CHOOSE r \in 1..Len(AsciiRuns) :
                     \E i \in 1..Len(AsciiRuns[r][2]) : Byte(AsciiRuns[r][2], i) = c
              i == CHOOSE i \in 1..Len(AsciiRuns[r][2]) : Byte(AsciiRuns[r][2], i) = c
          IN  AsciiRuns[r][1] + i - 1]

IsDigit(d) == Ord[d] >= Ord["0"] /\ Ord[d] <= Ord["9"]

\* Go's < on strings: byte-wise lexicographic.
RECURSIVE StrLess(_, _)
StrLess(a, b) ==
    IF Len(b) = 0 THEN FALSE
    ELSE IF Len(a) = 0 THEN TRUE
    ELSE IF Head(a) = Head(b) THEN StrLess(Tail(a), Tail(b))
    ELSE Ord[Head(a)] < Ord[Head(b)]

-----------------------------------------------------------------------------
(* Values and errors *)

Nil        == [t |-> "nil",    v |-> 0]
NoValue    == [t |-> "none",   v |-> 0]
Int64(n)   == [t |-> "int64",  v |-> n]
Str(s)     == [t |-> "string", v |-> s]
Slice(l)   == [t |-> "slice",  v |-> l]
Map(m)     == [t |-> "map",    v |-> m]
Delim(c)   == [t |-> "Delim",  v |-> c]
Bool(b)    == [t |-> "bool",   v |-> b]
Struct(fs) == [t |-> "struct", v |-> fs]
RValue(x)  == [t |-> "reflect.Value", v |-> x]
\* A reflect.Value with the read-only flag of an unexported struct field.
ROValue(x) == [t |-> "reflect.Value(ro)", v |-> x]
\* A pointer to e; the nil pointer has no element (NoValue).
Ptr(e)     == [t |-> "ptr",    v |-> e]

NoErr == <<>>
EOF   == <<"EOF">>
Errorf(msg) == <<msg>>
Wrap(prefix, e) == <<prefix>> \o e

-----------------------------------------------------------------------------
(* strconv and fmt *)

DigitChars == "0123456789"

RECURSIVE FormatUint(_)
FormatUint(n) ==
    IF n < 10 THEN Byte(DigitChars, n + 1)
    ELSE FormatUint(n \div 10) \o Byte(DigitChars, (n % 10) + 1)

\* A %d that loses the sign.
FormatInt_unsigned(n) == FormatUint(IF n < 0 THEN 0 - n ELSE n)

\* fmt's %d verb.
FormatInt(n) == IF n < 0 THEN "-" \o FormatUint(0 - n) ELSE FormatUint(n)

RECURSIVE AllDigits(_)
AllDigits(s) == Len(s) = 0 \/ (IsDigit(Head(s)) /\ AllDigits(Tail(s)))

RECURSIVE StripZeros(_)
StripZeros(s) == IF Len(s) > 1 /\ Head(s) = "0" THEN StripZeros(Tail(s)) ELSE s

\* a > b for two digit strings without leading zeros.
DigitsGreater(a, b) ==
    \/ Len(a) > Len(b)
    \/ Len(a) = Len(b) /\ StrLess(b, a)

MaxInt64Digits == "9223372036854775807"
MinInt64Digits == "9223372036854775808"

RECURSIVE DigitsValue(_, _)
DigitsValue(s, acc) ==
    IF Len(s) = 0 THEN acc
    ELSE DigitsValue(Tail(s), acc * 10 + (Ord[Head(s)] - Ord["0"]))

\* A ParseInt that takes a number in its shortest form only: no leading
\* zero, no -0, no +.
ParseInt_shortest(s) ==
    LET neg  == Len(s) > 0 /\ Head(s) = "-"
        body == IF neg THEN Tail(s) ELSE s
    IN  IF Len(body) = 0 \/ ~AllDigits(body) \/ StripZeros(body) # body
           \/ (neg /\ body = "0")
        THEN [n |-> 0, err |-> Errorf("strconv.ParseInt: invalid syntax")]
        ELSE IF DigitsGreater(body, IF neg THEN MinInt64Digits ELSE MaxInt64Digits)
        THEN [n |-> 0, err |-> Errorf("strconv.ParseInt: value out of range")]
        ELSE [n |-> IF neg THEN 0 - DigitsValue(body, 0) ELSE DigitsValue(body, 0),
              err |-> NoErr]

\* strconv.ParseInt(s, 10, 64).
ParseInt(s) ==
    LET neg  == Len(s) > 0 /\ Head(s) = "-"
        body == IF Len(s) > 0 /\ Head(s) \in {"-", "+"} THEN Tail(s) ELSE s
        mag  == StripZeros(body)
    IN  IF Len(s) = 0 \/ Len(body) = 0 \/ ~AllDigits(body)
        THEN [n |-> 0, err |-> Errorf("strconv.ParseInt: invalid syntax")]
        ELSE IF DigitsGreater(mag, IF neg THEN MinInt64Digits ELSE MaxInt64Digits)
        THEN [n |-> 0, err |-> Errorf("strconv.ParseInt: value out of range")]
        ELSE [n |-> IF neg THEN 0 - DigitsValue(mag, 0) ELSE DigitsValue(mag, 0),
              err |-> NoErr]

-----------------------------------------------------------------------------
(* The reader and the token scanner *)

\* The breader new_reader makes: off is how many bytes of the input the
\* bufio.Reader has handed out, lastByte whether it holds a last byte that
\* UnreadByte can put back, and pos is breader.pos.
new_reader == [off |-> 0, lastByte |-> FALSE, pos |-> 0]

\* A Read that leaves breader.pos alone.
Read_uncounted(inp, br, n) ==
    IF n = 0 THEN [b |-> "", err |-> NoErr, br |-> br]
    ELSE IF br.off >= Len(inp) THEN [b |-> "", err |-> EOF, br |-> br]
    ELSE LET k == IF Len(inp) - br.off < n THEN Len(inp) - br.off ELSE n
         IN  [b |-> SubSeq(inp, br.off + 1, br.off + k), err |-> NoErr,
              br |-> [off |-> br.off + k, lastByte |-> TRUE, pos |-> br.pos]]

\* breader.Read into a buffer of n bytes: the bytes read, the error and the
\* breader after it.  The bufio reader returns what is buffered, at most n
\* bytes, and io.EOF only with no byte; pos grows by the number of bytes.
Read(inp, br, n) ==
    IF n = 0 THEN [b |-> "", err |-> NoErr, br |-> br]
    ELSE IF br.off >= Len(inp) THEN [b |-> "", err |-> EOF, br |-> br]
    ELSE LET k == IF Len(inp) - br.off < n THEN Len(inp) - br.off ELSE n
         IN  [b |-> SubSeq(inp, br.off + 1, br.off + k), err |-> NoErr,
              br |-> [off |-> br.off + k, lastByte |-> TRUE, pos |-> br.pos + k]]

\* breader.UnreadByte: the bufio reader puts its last byte back, or fails
\* when it holds none; pos goes down by one only when it did not fail.
UnreadByte(br) ==
    IF ~br.lastByte
    THEN [err |-> Errorf("bufio: invalid use of UnreadByte"), br |-> br]
    ELSE [err |-> NoErr,
          br |-> [off |-> br.off - 1, lastByte |-> FALSE, pos |-> br.pos - 1]]

\* The loop of get_int: each turn reads one byte, and r is what that one
\* Read returned.
RECURSIVE get_int_loop(_, _, _, _)
get_int_loop(inp, br, end, digits) ==
    LET turn(r) ==
            IF r.err # NoErr THEN [tok |-> Int64(0), err |-> r.err, br |-> r.br]
            ELSE IF IsDigit(r.b) \/ r.b = "-"
            THEN get_int_loop(inp, r.br, end, digits \o r.b)
            ELSE IF r.b = end
            THEN LET n == ParseInt(digits)
                 IN  [tok |-> Int64(n.n), err |-> n.err, br |-> r.br]
            ELSE [tok |-> Int64(0),
                  err |-> Errorf("unexpected byte in integer spec"),
                  br |-> r.br]
    IN  CHOOSE t \in {turn(r) : r \in {Read(inp, br, 1)}} : TRUE

get_int(inp, br, end) == get_int_loop(inp, br, end, "")

\* The read loop of get_string: amtread bytes of size are in buf.
RECURSIVE read_loop(_, _, _, _)
read_loop(inp, br, size, buf) ==
    LET r == Read(inp, br, size - Len(buf))
    IN  IF Len(buf) >= size THEN [b |-> buf, br |-> r.br]
        ELSE IF r.err # NoErr THEN [b |-> buf \o r.b, br |-> r.br]
        ELSE read_loop(inp, r.br, size, buf \o r.b)

get_string(inp, br) ==
    LET sz == get_int(inp, br, ":")
    IN  IF sz.err # NoErr THEN [tok |-> Str(""), err |-> sz.err, br |-> sz.br]
        ELSE IF sz.tok.v < 0
        THEN [tok |-> Str(""),
              err |-> Errorf("negative length specified for string"),
              br |-> sz.br]
        ELSE LET rd == read_loop(inp, sz.br, sz.tok.v, "")
             IN  IF Len(rd.b) < sz.tok.v
                 THEN [tok |-> Str(""),
                       err |-> Errorf("short read while reading string"),
                       br |-> rd.br]
                 ELSE [tok |-> Str(rd.b), err |-> NoErr, br |-> rd.br]

\* A Token that takes a - for the start of a length as well.
Token_signed_length(inp, br) ==
    LET r == Read(inp, br, 1)
        s == r.b
    IN  IF r.err # NoErr THEN [tok |-> Nil, err |-> r.err, br |-> r.br]
        ELSE IF s = "i" THEN get_int(inp, r.br, "e")
        ELSE IF s = "l" THEN [tok |-> Delim("l"), err |-> NoErr, br |-> r.br]
        ELSE IF s = "d" THEN [tok |-> Delim("d"), err |-> NoErr, br |-> r.br]
        ELSE IF s = "e" THEN [tok |-> Delim("e"), err |-> NoErr, br |-> r.br]
        ELSE IF IsDigit(s) \/ s = "-" THEN get_string(inp, UnreadByte(r.br).br)
        ELSE [tok |-> Nil, err |-> Errorf("unexpected byte"), br |-> r.br]

\* Decoder.Token.  The error of UnreadByte is dropped.
Token(inp, br) ==
    LET r == Read(inp, br, 1)
        s == r.b
    IN  IF r.err # NoErr THEN [tok |-> Nil, err |-> r.err, br |-> r.br]
        ELSE IF s = "i" THEN get_int(inp, r.br, "e")
        ELSE IF s = "l" THEN [tok |-> Delim("l"), err |-> NoErr, br |-> r.br]
        ELSE IF s = "d" THEN [tok |-> Delim("d"), err |-> NoErr, br |-> r.br]
        ELSE IF s = "e" THEN [tok |-> Delim("e"), err |-> NoErr, br |-> r.br]
        ELSE IF IsDigit(s) THEN get_string(inp, UnreadByte(r.br).br)
        ELSE [tok |-> Nil, err |-> Errorf("unexpected byte"), br |-> r.br]

-----------------------------------------------------------------------------
(* The parser *)

\* A loop that passes over a pair whose key is no string.
RECURSIVE dict_loop_skip_bad_key(_, _)
dict_loop_skip_bad_key(l, d) ==
    IF Len(l) = 0 THEN [v |-> Map(d), err |-> NoErr]
    ELSE IF l[1].t # "string" THEN dict_loop_skip_bad_key(SubSeq(l, 3, Len(l)), d)
    ELSE dict_loop_skip_bad_key(SubSeq(l, 3, Len(l)),
                                [k \in DOMAIN d \cup {l[1].v} |->
                                     IF k = l[1].v THEN l[2] ELSE d[k]])

\* A loop that keeps the value a key has already.
RECURSIVE dict_loop_keep_first(_, _)
dict_loop_keep_first(l, d) ==
    IF Len(l) = 0 THEN [v |-> Map(d), err |-> NoErr]
    ELSE IF l[1].t # "string"
    THEN [v |-> Nil,
          err |-> Errorf("invalid type for dictionary key " \o l[1].t)]
    ELSE dict_loop_keep_first(SubSeq(l, 3, Len(l)),
                              [k \in DOMAIN d \cup {l[1].v} |->
                                   IF k \in DOMAIN d THEN d[k] ELSE l[2]])

\* The loop of parse_dict: the pairs of the flat list l go into d.
RECURSIVE dict_loop(_, _)
dict_loop(l, d) ==
    IF Len(l) = 0 THEN [v |-> Map(d), err |-> NoErr]
    ELSE IF l[1].t # "string"
    THEN [v |-> Nil,
          err |-> Errorf("invalid type for dictionary key " \o l[1].t)]
    ELSE dict_loop(SubSeq(l, 3, Len(l)),
                   [k \in DOMAIN d \cup {l[1].v} |->
                        IF k = l[1].v THEN l[2] ELSE d[k]])

\* A parse_dict that lets a last key without a value go.
parse_dict_drop_last(l) == dict_loop(SubSeq(l, 1, Len(l) - (Len(l) % 2)), <<>>)

\* parse_dict, once its call of parse_list has returned l and no error.
parse_dict(l) ==
    IF Len(l) % 2 # 0
    THEN [v |-> Nil, err |-> Errorf("odd number of elements in dict")]
    ELSE dict_loop(l, <<>>)

\* A call in progress: fn is parse_list, or parse_dict waiting for its own
\* call of parse_list; l is the list that parse_list has collected so far.
Frame(fn) == [fn |-> fn, l |-> <<>>]

\* What the innermost call returns when its parse_list returns l, nil.
frame_result(f) ==
    IF f.fn = "parse_dict" THEN parse_dict(f.l)
    ELSE [v |-> Slice(f.l), err |-> NoErr]

\* The innermost call returns r to its caller.  An error goes up through
\* every caller (return nil, err) to Decoder.Decode, which wraps it.
return_to_caller(frames, r) ==
    LET n == Len(frames)
    IN  IF r.err # NoErr
        THEN [stack |-> <<>>, done |-> TRUE, v |-> Nil,
              err |-> Wrap(IF frames[1].fn = "parse_dict"
                           THEN "error parsing dict" ELSE "error parsing list",
                           r.err)]
        ELSE IF n = 1
        THEN [stack |-> <<>>, done |-> TRUE, v |-> r.v, err |-> NoErr]
        ELSE [stack |-> [SubSeq(frames, 1, n - 1) EXCEPT
                            ![n - 1].l = Append(@, r.v)],
              done |-> FALSE, v |-> Nil, err |-> NoErr]

\* One turn of the loop of parse_list in the innermost call: tk is what
\* Token returned.  The loop runs while err == nil, and parse_list returns
\* l, nil after it.
parse_list_turn(frames, tk) ==
    LET n == Len(frames)
    IN  IF tk.err # NoErr
        THEN return_to_caller(frames, frame_result(frames[n]))
        ELSE IF tk.tok.t = "Delim"
        THEN IF tk.tok.v = "l"
             THEN [stack |-> Append(frames, Frame("parse_list")),
                   done |-> FALSE, v |-> Nil, err |-> NoErr]
             ELSE IF tk.tok.v = "d"
             THEN [stack |-> Append(frames, Frame("parse_dict")),
                   done |-> FALSE, v |-> Nil, err |-> NoErr]
             ELSE IF tk.tok.v = "e"
             THEN return_to_caller(frames, frame_result(frames[n]))
             ELSE return_to_caller(frames,
                      [v |-> Nil, err |-> Errorf("unrecognized token")])
        ELSE [stack |-> [frames EXCEPT ![n].l = Append(@, tk.tok)],
              done |-> FALSE, v |-> Nil, err |-> NoErr]

\* The first token of Decoder.Decode.
decode_first(tk) ==
    IF tk.err # NoErr
    THEN [stack |-> <<>>, done |-> TRUE, v |-> Nil, err |-> tk.err]
    ELSE IF tk.tok.t = "Delim"
    THEN IF tk.tok.v = "l"
         THEN [stack |-> <<Frame("parse_list")>>,
               done |-> FALSE, v |-> Nil, err |-> NoErr]
         ELSE IF tk.tok.v = "d"
         THEN [stack |-> <<Frame("parse_dict")>>,
               done |-> FALSE, v |-> Nil, err |-> NoErr]
         ELSE [stack |-> <<>>, done |-> TRUE, v |-> Nil, err |-> NoErr]
    ELSE [stack |-> <<>>, done |-> TRUE, v |-> tk.tok, err |-> NoErr]

\* Decode: what Decoder.Decode returned, with io.EOF turned into nil.
Decode(v, e) == [v |-> v, err |-> IF e = EOF THEN NoErr ELSE e]

-----------------------------------------------------------------------------
(* The encoder *)

\* A run-time panic: reflect.TypeOf(nil) is a nil Type, and Kind() on it
\* dereferences nil.  It unwinds every call, as a returned error does here.
Panic == <<"panic: invalid memory address or nil pointer dereference">>

\* Value.Interface on a value got from an unexported field of a struct.
PanicInterface ==
    <<"panic: reflect.Value.Interface: cannot return value obtained from unexported field or method">>

IsPanic(e) ==
    e # NoErr /\ Len(e[Len(e)]) >= 6 /\ SubSeq(e[Len(e)], 1, 6) = "panic:"

\* The order-th permutation of the set S of strings.
RECURSIVE Permutation(_, _)
Permutation(S, order) ==
    IF S = {} THEN <<>>
    ELSE LET n == Cardinality(S)
             k == CHOOSE k \in S :
                    Cardinality({j \in S : StrLess(j, k)}) = order % n
         IN  <<k>> \o Permutation(S \ {k}, order \div n)

\* reflect.Value.MapKeys: the keys of m, in an order the language leaves
\* open; order picks it.
MapKeys(m, order) == Permutation(DOMAIN m, order)

\* fmt.Sprintf("%s", k) of a string key.
Sprintf_s(k) == k

RECURSIVE insert_sorted(_, _)
insert_sorted(a, k) ==
    IF Len(a) = 0 THEN <<k>>
    ELSE IF StrLess(k, Head(a)) THEN <<k>> \o a
    ELSE <<Head(a)>> \o insert_sorted(Tail(a), k)

\* The keys left in the order they were met.
sort_Strings_unsorted(a) == a

\* sort.Strings.
RECURSIVE sort_Strings(_)
sort_Strings(a) ==
    IF Len(a) = 0 THEN <<>> ELSE insert_sorted(sort_Strings(Tail(a)), Head(a))

\* What a call wrote to enc.w, and the error it returned.
Wrote(out, e) == [out |-> out, err |-> e]

RECURSIVE Encode(_, _)

\* The loop of encode_slice over the elements l.
RECURSIVE encode_slice_loop(_, _)
encode_slice_loop(l, order) ==
    IF Len(l) = 0 THEN Wrote("", NoErr)
    ELSE LET first == Encode(Head(l), order)
         IN  IF first.err # NoErr THEN first
             ELSE LET rest == encode_slice_loop(Tail(l), order)
                  IN  Wrote(first.out \o rest.out, rest.err)

encode_slice(l, order) ==
    LET body == encode_slice_loop(l, order)
    IN  IF body.err # NoErr THEN Wrote("l" \o body.out, body.err)
        ELSE Wrote("l" \o body.out \o "e", NoErr)

\* The loop of encode_map over the sorted keys.
RECURSIVE encode_map_loop(_, _, _)
encode_map_loop(map_keys, new_map, order) ==
    IF Len(map_keys) = 0 THEN Wrote("", NoErr)
    ELSE LET k   == Head(map_keys)
             key == Encode(Str(k), order)
         IN  IF key.err # NoErr THEN key
             ELSE LET value == Encode(new_map[k], order)
                  IN  IF value.err # NoErr
                      THEN Wrote(key.out \o value.out, value.err)
                      ELSE LET rest == encode_map_loop(Tail(map_keys),
                                                       new_map, order)
                           IN  Wrote(key.out \o value.out \o rest.out, rest.err)

\* The keys of encode_map, as written: formatted, then sorted.
map_keys_sorted(m, order) ==
    LET keys == MapKeys(m, order)
    IN  sort_Strings([i \in 1..Len(keys) |-> Sprintf_s(keys[i])])

encode_map(m, order) ==
    LET keys    == MapKeys(m, order)
        new_map == [skey \in {Sprintf_s(keys[i]) : i \in 1..Len(keys)} |->
                       m[CHOOSE k \in DOMAIN m : Sprintf_s(k) = skey]]
        body    == encode_map_loop(map_keys_sorted(m, order), new_map, order)
    IN  IF body.err # NoErr THEN Wrote("d" \o body.out, body.err)
        ELSE Wrote("d" \o body.out \o "e", NoErr)

\* A field name is exported when it starts with an upper-case letter.
IsExported(name) ==
    Len(name) > 0 /\ Ord[Head(name)] >= Ord["A"] /\ Ord[Head(name)] <= Ord["Z"]

\* val.Field(i) of the field f.
Field(f) == IF IsExported(f.name) THEN RValue(f.val) ELSE ROValue(f.val)

\* encode_struct: fields is the record's fields in declaration order.
encode_struct(fields, order) ==
    LET field_map == [name \in {fields[i].name : i \in 1..Len(fields)} |->
                         Field(CHOOSE f \in {fields[i] : i \in 1..Len(fields)} :
                                   f.name = name)]
    IN  encode_map(field_map, order)

\* Encoder.Encode.
Encode(value, order) ==
    LET v == IF value.t = "reflect.Value" THEN value.v ELSE value
    IN  IF value.t = "reflect.Value(ro)" THEN Wrote("", PanicInterface)
        ELSE IF v.t = "nil" THEN Wrote("", Panic)
        ELSE IF v.t = "ptr"
        THEN IF v.v = NoValue THEN Encode(Str("nil"), order)
             ELSE Encode(RValue(v.v), order)
        ELSE IF v.t = "int64" THEN Wrote("i" \o FormatInt(v.v) \o "e", NoErr)
        ELSE IF v.t = "map" THEN encode_map(v.v, order)
        ELSE IF v.t = "struct" THEN encode_struct(v.v, order)
        ELSE IF v.t = "slice" THEN encode_slice(v.v, order)
        ELSE IF v.t = "string"
        THEN Wrote(FormatInt(Len(v.v)) \o ":" \o v.v, NoErr)
        ELSE Wrote("", Errorf("invalid data type for encoding: " \o v.t))

\* An EncodeToString that returns the buffer also when Encode failed.
EncodeToString_partial(v, order) ==
    LET r == Encode(v, order) IN [s |-> r.out, err |-> r.err]

\* EncodeToString: the buffer's content, or "" and the error.
EncodeToString(v, order) ==
    LET r == Encode(v, order)
    IN  IF r.err # NoErr THEN [s |-> "", err |-> r.err]
        ELSE [s |-> r.out, err |-> NoErr]

\* An io.Writer with room for some more bytes: Write takes the bytes that
\* fit and returns an error when not all of them did.
Writer(room) == [buf |-> "", room |-> room, failed |-> FALSE]

\* wr after the bytes p were handed to its Write, in one call or, cut
\* anywhere, in several.
Write(wr, p) ==
    LET n == IF Len(p) < wr.room THEN Len(p) ELSE wr.room
    IN  [buf    |-> wr.buf \o SubSeq(p, 1, n),
         room   |-> wr.room - n,
         failed |-> wr.failed \/ n < Len(p)]

-----------------------------------------------------------------------------
(* Types, and the destination of FillData *)

\* A Go type: its kind, its name (Type.String()), the element type of a
\* slice or map type, the fields of a struct type.
Basic(k)    == [kind |-> k, name |-> k, elem |-> <<>>, fields |-> <<>>]
Named(n, k) == [kind |-> k, name |-> n, elem |-> <<>>, fields |-> <<>>]
SliceOf(T)  ==
    [kind |-> "slice", name |-> "[]" \o T.name, elem |-> <<T>>, fields |-> <<>>]
MapOf(T)    ==
    [kind |-> "map", name |-> "map[string]" \o T.name, elem |-> <<T>>,
     fields |-> <<>>]
InterfaceType ==
    [kind |-> "interface", name |-> "interface {}", elem |-> <<>>, fields |-> <<>>]

\* A struct type; fs is its fields, each with its name, the value of its
\* bencode tag, and its type.
StructOf(n, fs) == [kind |-> "struct", name |-> n, elem |-> <<>>, fields |-> fs]
FieldOf(n, tag, T) == [name |-> n, tag |-> tag, type |-> T]

SignedKinds   == {"int", "int8", "int16", "int32", "int64"}
UnsignedKinds == {"uint", "uint8", "uint16", "uint32", "uint64"}

is_kind_int(kind) == kind \in SignedKinds \cup UnsignedKinds

get_int_kind(kind) ==
    [is_signed |-> kind \in SignedKinds, ok |-> is_kind_int(kind)]

\* An integer of kind k.
IntOf(k, n) == [t |-> k, v |-> n]

\* An interface value that holds x: an element of a []interface{}.
Iface(x) == [t |-> "interface", v |-> x]

\* reflect.Value.Type of a source value; the decoder's lists and
\* dictionaries are []interface{} and map[string]interface{}.
TypeOf(x) ==
    IF x.t = "slice" THEN SliceOf(InterfaceType)
    ELSE IF x.t = "map" THEN MapOf(InterfaceType)
    ELSE IF x.t = "interface" THEN InterfaceType
    ELSE Basic(x.t)

\* The zero value of a type.
RECURSIVE Zero(_)
Zero(T) ==
    IF is_kind_int(T.kind) THEN IntOf(T.kind, 0)
    ELSE IF T.kind = "string" THEN Str("")
    ELSE IF T.kind = "bool" THEN Bool(FALSE)
    ELSE IF T.kind = "slice" THEN Slice(<<>>)
    ELSE IF T.kind = "map" THEN Map(<<>>)
    ELSE IF T.kind = "struct"
    THEN Struct([i \in 1..Len(T.fields) |->
                    [name |-> T.fields[i].name, val |-> Zero(T.fields[i].type)]])
    ELSE Nil

\* A settable reflect.Value: its type, the value it holds, and the
\* read-only flag of a value got from an unexported field.
Settable(T, v, ro) == [ty |-> T, val |-> v, ro |-> ro]

\* What a step of the coercion leaves in the destination, and its error.
Filled(v, e) == [val |-> v, err |-> e]

PanicSetRO ==
    <<"panic: reflect: reflect.Value.Set using value obtained using unexported field">>
PanicAssign    == <<"panic: reflect.Set: value is not assignable to type">>
PanicLen       == <<"panic: reflect: call of reflect.Value.Len on a Value without length">>
PanicMakeSlice == <<"panic: reflect.MakeSlice of non-slice type">>
PanicZeroValue == <<"panic: reflect: call of a reflect.Value method on zero Value">>

\* The number of bits of an integer kind; int and uint have 64.
Bits(kind) ==
    IF kind \in {"int8", "uint8"} THEN 8
    ELSE IF kind \in {"int16", "uint16"} THEN 16
    ELSE IF kind \in {"int32", "uint32"} THEN 32
    ELSE 64

\* 2^bits + n for a negative n and 32 bits or more, a number above the
\* model's integers: it is written as n, which is no other value of an
\* unsigned kind.
TwoToThePlus(bits, n) == n

\* The conversion of the int64 x to a signed integer of so many bits.  An x
\* of the model lies in the range of 32 bits.
ToSigned(x, bits) ==
    IF bits >= 32 THEN x
    ELSE LET m == x % (2 ^ bits)
         IN  IF m >= 2 ^ (bits - 1) THEN m - 2 ^ bits ELSE m

\* The conversion of uint64(x), for the int64 x, to an unsigned integer of
\* so many bits.
ToUnsigned(x, bits) ==
    IF bits < 32 THEN x % (2 ^ bits)
    ELSE IF x >= 0 THEN x
    ELSE TwoToThePlus(bits, x)

\* in.Interface(): the value held, without the interface around it.
Interface(in) == IF in.t = "interface" THEN in.v ELSE in

\* reflect.Value.Set: x, of type T, is assigned to out.
Set(out, x, T) ==
    IF out.ro THEN Filled(out.val, PanicSetRO)
    ELSE IF T # out.ty /\ out.ty.kind # "interface"
    THEN Filled(out.val, PanicAssign)
    ELSE Filled(Interface(x), NoErr)

\* reflect.Value.SetInt on a value of a signed kind.
SetInt(out, x) ==
    IF out.ro THEN Filled(out.val, PanicSetRO)
    ELSE Filled(IntOf(out.ty.kind, ToSigned(x, Bits(out.ty.kind))), NoErr)

\* reflect.Value.SetUint on a value of an unsigned kind, with uint64(x).
SetUint(out, x) ==
    IF out.ro THEN Filled(out.val, PanicSetRO)
    ELSE Filled(IntOf(out.ty.kind, ToUnsigned(x, Bits(out.ty.kind))), NoErr)

\* reflect.Value.SetString.
SetString(out, s) ==
    IF out.ro THEN Filled(out.val, PanicSetRO) ELSE Filled(Str(s), NoErr)

MaxUint64Digits == "18446744073709551615"

\* strconv.ParseUint(s, 10, 64).
ParseUint(s) ==
    IF Len(s) = 0 \/ ~AllDigits(s)
    THEN [n |-> 0, err |-> Errorf("strconv.ParseUint: invalid syntax")]
    ELSE IF DigitsGreater(StripZeros(s), MaxUint64Digits)
    THEN [n |-> 0, err |-> Errorf("strconv.ParseUint: value out of range")]
    ELSE [n |-> DigitsValue(StripZeros(s), 0), err |-> NoErr]

-----------------------------------------------------------------------------
(* The coercion engine *)

\* set_val_coerce_to_string.  The text of an unsigned source is formatted
\* and dropped: s stays empty.  No source here is a []byte.
set_val_coerce_to_string(out, in) ==
    IF in.t = "string" THEN Set(out, in, TypeOf(in))
    ELSE IF get_int_kind(in.t).ok
    THEN SetString(out, IF get_int_kind(in.t).is_signed
                        THEN FormatInt(in.v) ELSE "")
    ELSE IF out.ro THEN Filled(out.val, PanicInterface)
    ELSE Filled(out.val,
                Errorf("don't know how to coerce " \o in.t \o " to " \o out.ty.kind))

\* set_val_coerce_int_to_int; out is of an integer kind.
set_val_coerce_int_to_int(out, in, in_is_signed) ==
    IF out.ty.kind \in SignedKinds THEN SetInt(out, in.v)
    ELSE SetUint(out, in.v)

\* A set_val_coerce_string_to_int that parses a signed number for every
\* destination.
set_val_coerce_string_to_int_signed(out, in) ==
    LET the_int == ParseInt(in.v)
    IN  IF the_int.err # NoErr THEN Filled(out.val, the_int.err)
        ELSE IF out.ty.kind \in SignedKinds THEN SetInt(out, the_int.n)
        ELSE SetUint(out, the_int.n)

\* set_val_coerce_string_to_int; out is of an integer kind.
set_val_coerce_string_to_int(out, in) ==
    IF out.ty.kind \in SignedKinds
    THEN LET the_int == ParseInt(in.v)
         IN  IF the_int.err # NoErr THEN Filled(out.val, the_int.err)
             ELSE SetInt(out, the_int.n)
    ELSE LET the_uint == ParseUint(in.v)
         IN  IF the_uint.err # NoErr THEN Filled(out.val, the_uint.err)
             ELSE SetUint(out, the_uint.n)

set_val_coerce_to_int(out, in) ==
    IF in.t = out.ty.kind THEN Set(out, in, TypeOf(in))
    ELSE IF get_int_kind(in.t).ok
    THEN set_val_coerce_int_to_int(out, in, get_int_kind(in.t).is_signed)
    ELSE IF in.t = "string" THEN set_val_coerce_string_to_int(out, in)
    ELSE Filled(out.val,
                Errorf("don't know how to coerce " \o in.t \o " to " \o out.ty.kind))

\* strings.Split(tag_val, ",")[0].
RECURSIVE FirstPart(_)
FirstPart(tag_val) ==
    IF Len(tag_val) = 0 \/ Head(tag_val) = "," THEN ""
    ELSE Head(tag_val) \o FirstPart(Tail(tag_val))

\* The key that unmarshal_struct looks up for the field f.
FieldKey(f) == IF FirstPart(f.tag) = "" THEN f.name ELSE FirstPart(f.tag)

\* out.Field(i).
OutField(out, i) ==
    Settable(out.ty.fields[i].type, out.val.v[i].val,
             out.ro \/ ~IsExported(out.ty.fields[i].name))

\* The kinds whose values have a length for reflect.Value.Len.
HasLen(x) == x.t \in {"slice", "string", "map"}

RECURSIVE set_val_coerce(_, _)

\* The loop of unmarshal_struct from field i on; d is the source map.
RECURSIVE unmarshal_struct_loop(_, _, _)
unmarshal_struct_loop(out, d, i) ==
    IF i > Len(out.ty.fields) THEN Filled(out.val, NoErr)
    ELSE LET name == FieldKey(out.ty.fields[i])
         IN  IF name \notin DOMAIN d THEN unmarshal_struct_loop(out, d, i + 1)
             ELSE LET r == set_val_coerce(OutField(out, i), d[name])
                      set == [out EXCEPT !.val.v[i].val = r.val]
                  IN  IF r.err # NoErr THEN Filled(set.val, r.err)
                      ELSE unmarshal_struct_loop(set, d, i + 1)

unmarshal_struct(out, in) ==
    IF in.t # "map"
    THEN Filled(out.val, Errorf("FillData not passed map[string]interface{}"))
    ELSE unmarshal_struct_loop(out, in.v, 1)

\* The loop of set_val_coerce_slice from element i on; new_in is the slice
\* built so far.
RECURSIVE set_val_coerce_slice_loop(_, _, _, _)
set_val_coerce_slice_loop(out, in, new_in, i) ==
    IF i > Len(in.v) THEN Set(out, Slice(new_in), out.ty)
    ELSE LET out_elem_type == out.ty.elem[1]
             elem == Iface(in.v[i])
             r    == set_val_coerce(Settable(out_elem_type, Zero(out_elem_type),
                                             FALSE), elem)
         IN  IF IsPanic(r.err) THEN Filled(out.val, r.err)
             ELSE IF r.err # NoErr
             THEN Filled(out.val, Errorf("couldn't coerce " \o in.v[i].t \o " to "
                                         \o out_elem_type.kind \o " in slice"))
             ELSE set_val_coerce_slice_loop(out, in, Append(new_in, r.val), i + 1)

\* set_val_coerce_slice; out is of kind slice.
set_val_coerce_slice(out, in) ==
    IF ~HasLen(in) THEN Filled(out.val, PanicLen)
    ELSE IF in.t # "slice"
    THEN IF out.ro THEN Filled(out.val, PanicInterface)
         ELSE Filled(out.val,
                     Errorf("don't know how to coerce " \o in.t \o " to slice"))
    ELSE IF Len(in.v) = 0
    THEN IF out.ty.elem[1].kind # "slice" THEN Filled(out.val, PanicMakeSlice)
         ELSE Set(out, Slice(<<>>), out.ty.elem[1])
    ELSE IF TypeOf(in) = out.ty THEN Set(out, in, TypeOf(in))
    ELSE set_val_coerce_slice_loop(out, in, <<>>, 1)

set_val_coerce(out, in) ==
    IF in.t = "nil" THEN Filled(out.val, PanicZeroValue)
    ELSE IF in.t = out.ty.kind /\ TypeOf(in) = out.ty
    THEN Set(out, in, TypeOf(in))
    ELSE IF out.ty.kind = "interface"
    THEN IF Interface(in).t = "nil" THEN Filled(out.val, PanicZeroValue)
         ELSE Set(out, Interface(in), TypeOf(Interface(in)))
    ELSE IF in.t = "interface" THEN set_val_coerce(out, in.v)
    ELSE IF out.ty.kind = "string" THEN set_val_coerce_to_string(out, in)
    ELSE IF is_kind_int(out.ty.kind) THEN set_val_coerce_to_int(out, in)
    ELSE IF out.ty.kind = "struct" THEN unmarshal_struct(out, in)
    ELSE IF out.ty.kind = "slice" THEN set_val_coerce_slice(out, in)
    ELSE Filled(out.val,
                Errorf("don't know how to coerce " \o in.t \o " to " \o out.ty.kind))

\* FillData(out_intfc, in_intfc), where out_intfc is a pointer: to nothing
\* (NoValue) or to the destination.
FillData(out, in) ==
    IF out.v = NoValue
    THEN Filled(NoValue, Errorf("invalid value passed to decoder"))
    ELSE set_val_coerce(out.v, in)

-----------------------------------------------------------------------------
(* Inputs *)

MaxRawLen  == 4
MaxListLen == 2
MaxOrder   == 5
MaxRoom    == 2

RawAlphabet == {"i", "l", "d", "e", "0", "1", ":", "-", "x"}

RECURSIVE StringsUpTo(_, _)
StringsUpTo(alphabet, n) ==
    IF n = 0 THEN {""}
    ELSE LET shorter == StringsUpTo(alphabet, n - 1)
         IN  shorter \cup {s \o c : s \in shorter, c \in alphabet}

RawInputs == StringsUpTo(RawAlphabet, MaxRawLen)

\* The (Encoded, Decoded) pairs of get_test_data.
TestData == <<
    [Encoded |-> "i42e",  Decoded |-> Int64(42)],
    [Encoded |-> "i0e",   Decoded |-> Int64(0)],
    [Encoded |-> "i-42e", Decoded |-> Int64(-42)],
    [Encoded |-> "l4:spami42ee",
     Decoded |-> Slice(<<Str("spam"), Int64(42)>>)],
    [Encoded |-> "d3:bar4:spam3:fooi42ee",
     Decoded |-> Map([bar |-> Str("spam"), foo |-> Int64(42)])],
    [Encoded |-> "4:spam", Decoded |-> Str("spam")],
    [Encoded |-> "0:",     Decoded |-> Str("")],
    [Encoded |-> "i3e",    Decoded |-> Int64(3)],
    [Encoded |-> "i-3e",   Decoded |-> Int64(-3)],
    [Encoded |-> "l4:spam4:eggse",
     Decoded |-> Slice(<<Str("spam"), Str("eggs")>>)],
    [Encoded |-> "le", Decoded |-> Slice(<<>>)],
    [Encoded |-> "d3:cow3:moo4:spam4:eggse",
     Decoded |-> Map([cow |-> Str("moo"), spam |-> Str("eggs")])],
    [Encoded |-> "d4:spaml1:a1:bee",
     Decoded |-> Map([spam |-> Slice(<<Str("a"), Str("b")>>)])],
    [Encoded |-> "d9:publisher3:bob17:publisher-webpage15:www.example.com18:publisher.location4:homee",
     Decoded |-> Map(("publisher" :> Str("bob"))
                     @@ ("publisher-webpage" :> Str("www.example.com"))
                     @@ ("publisher.location" :> Str("home")))],
    [Encoded |-> "de", Decoded |-> Map(<<>>)],
    [Encoded |-> "d8:spam.mp3d6:author5:Alice6:lengthi100000eee",
     Decoded |-> Map("spam.mp3" :> Map([author |-> Str("alice"),
                                        length |-> Str("100000")]))] >>

\* The map of the package documentation's encoding example.
DocExample ==
    Map([foo |-> Str("bar2"), bar |-> Str("foo2"), zebra |-> Str("not a horse")])

SeqsUpTo(S, n) == UNION {[1..k -> S] : k \in 0..n}

MapsOver(K, S) == UNION {[D -> S] : D \in SUBSET K}

\* Records of two fields named a and b, declared in either order.
RecordsOver(a, b, S) ==
    {Struct(<<[name |-> a, val |-> x], [name |-> b, val |-> y]>>) : x, y \in S}
    \cup {Struct(<<[name |-> b, val |-> y], [name |-> a, val |-> x]>>) : x, y \in S}

Leaves == {Int64(0), Int64(-42), Str(""), Str("l1:de")}

\* Values Encode has no wire mapping for, and the nil interface.
OtherLeaves == {Bool(TRUE), Nil}

InnerValues ==
    LET S == Leaves \cup OtherLeaves
    IN  S \cup {Slice(l) : l \in SeqsUpTo(S, 1)}
          \cup {Map(m) : m \in MapsOver({"bar"}, S)}
          \cup {Struct(<<[name |-> "Foo", val |-> x]>>) : x \in S}

DeepValues ==
    { Slice(<<Slice(<<Slice(<<Map([foo |-> Slice(<<Int64(7)>>)])>>)>>)>>),
      Map([bar |-> Map([bar |-> Map([foo |-> Str("e"), bar |-> Int64(-1)])])]),
      Slice(<<Int64(100000), Str("0123456789"), Map([zebra |-> Int64(9)])>>),
      Slice(<<Slice(<<Map([foo |-> Slice(<<Bool(TRUE)>>)])>>)>>),
      Map([bar |-> Struct(<<[name |-> "Foo", val |-> Slice(<<Bool(FALSE)>>)]>>)]),
      Ptr(NoValue), Ptr(Int64(7)), Ptr(Ptr(NoValue)),
      Slice(<<Ptr(NoValue)>>), Map([bar |-> Ptr(NoValue)]),
      Slice(<<Int64(1), Nil>>), Map([bar |-> Int64(1), foo |-> Nil]),
      Struct(<<[name |-> "Foo", val |-> Int64(1)], [name |-> "bar", val |-> Str("a")]>>),
      Struct(<<[name |-> "bar", val |-> Str("a")], [name |-> "Foo", val |-> Int64(1)]>>),
      Struct(<<[name |-> "length", val |-> Int64(100000)]>>),
      Slice(<<Struct(<<[name |-> "Foo", val |-> Int64(1)],
                       [name |-> "Zoo", val |-> Slice(<<Str("a")>>)],
                       [name |-> "Bar", val |-> Int64(2)]>>)>>),
      DocExample }

EncodeValues ==
    InnerValues
    \cup {Slice(l) : l \in SeqsUpTo(InnerValues, MaxListLen)}
    \cup {Map(m) : m \in MapsOver({"foo", "bar"}, InnerValues)}
    \cup RecordsOver("Foo", "Bar", InnerValues)
    \cup DeepValues
    \cup {TestData[i].Decoded : i \in 1..Len(TestData)}

\* The values of the decoder's model: byte strings, int64, lists and
\* string-keyed dictionaries of such values.
RECURSIVE IsGeneric(_)
IsGeneric(v) ==
    IF v.t \in {"int64", "string"} THEN TRUE
    ELSE IF v.t = "slice" THEN \A i \in 1..Len(v.v) : IsGeneric(v.v[i])
    ELSE IF v.t = "map" THEN \A k \in DOMAIN v.v : IsGeneric(v.v[k])
    ELSE FALSE

Prefixes(s) == {SubSeq(s, 1, k) : k \in 0..Len(s)}

\* Every encoding of a generic value cut short at every length.
TruncatedInputs ==
    UNION {Prefixes(Encode(v, 0).out) : v \in {x \in EncodeValues : IsGeneric(x)}}

TableInputs == UNION {Prefixes(TestData[i].Encoded) : i \in 1..Len(TestData)}

\* Texts with a dictionary whose body is odd or has a key that is no string.
MalformedTexts ==
    { "di1e4:spame", "dle4:spame", "ddei1ee", "d3:bari1ei2e3:fooe",
      "ldi1e0:ee", "d3:fooldi1e0:eee", "ld3:baree", "d3:food3:baree",
      "d3:bari1e3:fooe", "lli1exi2eei3ee", "d3:barl4:spam" }

MalformedInputs == UNION {Prefixes(s) : s \in MalformedTexts}

\* Integers in every form the scanner reads, and around the ends of the
\* range of int64.
IntTexts ==
    { "i007e", "i-0e", "i-42e", "i-007e", "i0000e", "i2147483647e",
      "i-2147483647e", "i00000000000000000000042e",
      "i9223372036854775808e", "i-9223372036854775809e",
      "i99999999999999999999e", "i4-2e", "i--42e", "i42-e", "i-4-2e",
      "i---e", "i+42e", "i4 2e", "i42x", "i42" }

\* Dictionaries whose body has a key more than once.
DuplicateKeyTexts ==
    { "d3:fooi1e3:fooi2ee", "d3:fooi2e3:fooi1ee", "d0:i1e0:i1ee",
      "d3:fooi1e3:bar0:3:fooi2e3:fooi3ee", "d3:fool1:ae3:foodee",
      "d3:bari1e3:fooi2e3:bar1:b3:foo1:ae",
      "ld1:ai1e1:a1:bed1:a1:b1:ai1eee", "d1:ad1:bi1e1:bi2ee1:ai3ee",
      "d1:ai1e1:ai2e", "d1:ai1e1:ai2ex", "d1:ai1e1:a" }

\* Byte strings whose length has a - in it.
LengthTexts ==
    { "1-2:ab", "l2-1:abe", "-1:a", "0-0:", "1-:a", "2--:ab", "d1-1:ai1ee",
      "l-1:ae", "10-:", "1-2x", "1-2" }

DecodeInputs ==
    RawInputs \cup TruncatedInputs \cup TableInputs \cup MalformedInputs
    \cup IntTexts \cup DuplicateKeyTexts \cup LengthTexts

\* The values handed to Encode with a writer that may fail.
WriterValues ==
    { Int64(42), Str("spam"), Slice(<<>>), Slice(<<Int64(1), Str("a")>>),
      Map(<<>>), Map([foo |-> Int64(1)]),
      Struct(<<[name |-> "Foo", val |-> Str("a")]>>),
      Bool(TRUE), Slice(<<Bool(TRUE)>>), Nil }

Writers == {Writer(room) : room \in 0..MaxRoom}

\* The destination types of FillData.
InfoType ==
    StructOf("Info", << FieldOf("Author", "author", Basic("string")),
                        FieldOf("Length", "length,omitempty", Basic("int32")),
                        FieldOf("Name", "", Basic("string")),
                        FieldOf("Tags", ",omitempty", SliceOf(Basic("string"))) >>)

PeerType ==
    StructOf("Peer", << FieldOf("Port", "", Basic("uint16")),
                        FieldOf("host", "", Basic("string")) >>)

OuterType ==
    StructOf("Outer", << FieldOf("Info", "info", InfoType),
                         FieldOf("Any", "", InterfaceType),
                         FieldOf("N", "n", Basic("int8")) >>)

IntTypes ==
    {Basic(k) : k \in SignedKinds \cup UnsignedKinds}
    \cup {Named("ID", "int64"), Named("Small", "int8")}

StringTypes == {Basic("string"), Named("Name", "string")}

SliceTypes ==
    { SliceOf(Basic("string")), SliceOf(Basic("int8")), SliceOf(Basic("uint16")),
      SliceOf(SliceOf(Basic("int64"))), SliceOf(InterfaceType) }

StructTypes == {InfoType, PeerType, OuterType}

DestTypes ==
    IntTypes \cup StringTypes \cup SliceTypes \cup StructTypes
    \cup {Basic("bool"), MapOf(Basic("string")), InterfaceType}

\* A value of the type T that is not its zero value.
RECURSIVE Preset(_)
Preset(T) ==
    IF is_kind_int(T.kind) THEN IntOf(T.kind, 7)
    ELSE IF T.kind = "string" THEN Str("old")
    ELSE IF T.kind = "bool" THEN Bool(TRUE)
    ELSE IF T.kind = "slice" THEN Slice(<<Zero(T.elem[1])>>)
    ELSE IF T.kind = "map" THEN Map([old |-> Str("old")])
    ELSE IF T.kind = "struct"
    THEN Struct([i \in 1..Len(T.fields) |->
                    [name |-> T.fields[i].name, val |-> Preset(T.fields[i].type)]])
    ELSE Str("old")

\* What the pointer handed to FillData points to: nothing, or a variable of
\* a destination type.
Destinations ==
    {Ptr(NoValue)}
    \cup UNION {{Ptr(Settable(T, Zero(T), FALSE)), Ptr(Settable(T, Preset(T), FALSE))} :
                T \in DestTypes}

MaxFillLen == 2

IntSamples == {-32769, -129, -1, 0, 42, 127, 128, 255, 300, 65535, 65536, 100000}

IntSources ==
    {Int64(n) : n \in IntSamples}
    \cup { IntOf("int", 100000), IntOf("int8", -3), IntOf("int16", -300),
           IntOf("int32", 5), IntOf("uint", 5), IntOf("uint8", 200),
           IntOf("uint16", 0), IntOf("uint32", 100000), IntOf("uint64", 7) }

StrSources ==
    {Str(s) : s \in { "42", "-42", "+42", "", "4x", "x", "007", "-0", "300",
                      "-1", "- 1", "--1", "100000", "spam",
                      "18446744073709551616", "-9223372036854775809" }}

FillLeaves == {Int64(1), Int64(300), Str("42"), Str("spam")}

ListSources ==
    {Slice(l) : l \in SeqsUpTo(FillLeaves, MaxFillLen)}
    \cup { Slice(<<Slice(<<Int64(1)>>)>>),
           Slice(<<Slice(<<Int64(1)>>), Slice(<<>>)>>),
           Slice(<<Map(<<>>)>>) }

DictSources ==
    {Map(m) : m \in MapsOver({"author", "Author", "length", "Name"},
                             {Str("7"), Int64(7)})}
    \cup { Map([author |-> Str("Alice"), length |-> Int64(100000)]),
           Map([Length |-> Int64(5), extra |-> Int64(1)]),
           Map("length,omitempty" :> Int64(5)),
           Map([length |-> Str("x"), Name |-> Str("n")]),
           Map([Name |-> Str("n"), Tags |-> Slice(<<Str("a"), Int64(2)>>)]),
           Map([Tags |-> Slice(<<>>)]),
           Map([Port |-> Int64(70000)]),
           Map([host |-> Str("h"), Port |-> Int64(6881)]),
           Map([host |-> Str("h")]),
           Map([info |-> Map([author |-> Str("Alice"), length |-> Str("12")]),
                Any |-> Slice(<<Int64(1)>>), n |-> Int64(300)]),
           Map([info |-> Int64(1), n |-> Str("5")]),
           Map([N |-> Int64(1), Any |-> Map(<<>>)]) }

MaxParts == 2
MaxCalls == 3

\* The values whose encodings follow one another behind one Decoder.
StreamValues ==
    { Int64(0), Int64(-42), Str(""), Str("l1:de"), Slice(<<>>),
      Slice(<<Str("e"), Int64(7)>>), Map(<<>>),
      Map([foo |-> Slice(<<Int64(1)>>)]) }

\* A complete encoding e and the value v it is the encoding of.
Encodings == {[e |-> Encode(x, 0).out, v |-> x] : x \in StreamValues}

RECURSIVE Concat(_)
Concat(es) == IF Len(es) = 0 THEN "" ELSE Head(es).e \o Concat(Tail(es))

\* What follows the last complete encoding: nothing, or bytes that are no
\* complete encoding.
Trailers == {"", "x", "e", "i1", "l", "3:ab"}

StreamInputs ==
    {Concat(es) \o t : es \in SeqsUpTo(Encodings, MaxParts), t \in Trailers}

FillSources ==
    IntSources \cup StrSources \cup ListSources \cup DictSources
    \cup {Bool(TRUE), Nil}

-----------------------------------------------------------------------------
(* The program: a caller of EncodeToString, Encode, DecodeString, FillData,  *)
(* or of Decode on a Decoder of its own                                     *)

Init ==
    /\ encOut = ""
    /\ encErr = NoErr
    /\ reader = new_reader
    /\ stack = <<>>
    /\ result = Nil
    /\ err = NoErr
    /\ fillErr = NoErr
    /\ \/ /\ val \in EncodeValues /\ input = "" /\ pc = "encode"
          /\ w = NoValue /\ out_intfc = NoValue /\ in_intfc = NoValue
          /\ own = FALSE /\ calls = <<>>
       \/ /\ val = NoValue /\ input \in DecodeInputs /\ pc = "decode"
          /\ w = NoValue /\ out_intfc = NoValue /\ in_intfc = NoValue
          /\ own = FALSE /\ calls = <<>>
       \/ /\ val \in WriterValues /\ input = "" /\ pc = "write"
          /\ w \in Writers /\ out_intfc = NoValue /\ in_intfc = NoValue
          /\ own = FALSE /\ calls = <<>>
       \/ /\ val = NoValue /\ input = "" /\ pc = "fill"
          /\ w = NoValue /\ out_intfc \in Destinations /\ in_intfc \in FillSources
          /\ own = FALSE /\ calls = <<>>
       \/ /\ val = NoValue /\ input \in StreamInputs /\ pc = "decode"
          /\ w = NoValue /\ out_intfc = NoValue /\ in_intfc = NoValue
          /\ own = TRUE /\ calls = <<>>

\* EncodeToString(val); the map keys are met in the order-th order.
EncodeToStringCall ==
    /\ pc = "encode"
    /\ \E order \in 0..MaxOrder : \E r \in {EncodeToString(val, order)} :
          IF IsPanic(r.err)
          THEN pc' = "panic" /\ UNCHANGED <<encOut, encErr>>
          ELSE pc' = "encoded" /\ encOut' = r.s /\ encErr' = r.err
    /\ UNCHANGED <<val, input, reader, stack, result, err, w, fillVars, own, calls>>

\* Encode(w, val): what the encoder writes goes to w, and the errors of
\* fmt.Fprintf and w.Write are dropped.
EncodeCall ==
    /\ pc = "write"
    /\ \E order \in 0..MaxOrder : \E r \in {Encode(val, order)} :
          IF IsPanic(r.err)
          THEN pc' = "panic" /\ UNCHANGED <<encErr, w>>
          ELSE pc' = "written" /\ encErr' = r.err /\ w' = Write(w, r.out)
    /\ UNCHANGED <<val, encOut, input, reader, stack, result, err, fillVars, own, calls>>

\* DecodeString(encOut): a new Decoder over the encoding.
DecodeStringCall ==
    /\ pc = "encoded"
    /\ encErr = NoErr
    /\ input' = encOut
    /\ reader' = new_reader
    /\ stack' = <<>>
    /\ result' = Nil
    /\ err' = NoErr
    /\ pc' = "decode"
    /\ UNCHANGED <<val, encOut, encErr, w, fillVars, own, calls>>

\* The state after the parser's step st, which left the breader as br.
\* When Decoder.Decode returns, DecodeString's caller gets what Decode makes
\* of it, and the caller of its own Decoder gets it as it is.
Stepped(st, br) ==
    /\ reader' = br
    /\ stack' = st.stack
    /\ IF st.done
       THEN /\ pc' = "done"
            /\ IF ~own
               THEN /\ result' = Decode(st.v, st.err).v
                    /\ err' = Decode(st.v, st.err).err
                    /\ UNCHANGED calls
               ELSE /\ result' = st.v
                    /\ err' = st.err
                    /\ calls' = Append(calls, [v |-> st.v, err |-> st.err,
                                               off |-> br.off])
       ELSE /\ pc' = "parse"
            /\ UNCHANGED <<result, err, calls>>
    /\ UNCHANGED <<val, encOut, encErr, input, w, fillVars, own>>

\* A call that gives the Decoder a new breader, so that what the old one
\* had buffered is gone.
DecoderDecodeCall_new_reader ==
    /\ pc = "done"
    /\ own
    /\ Len(calls) < MaxCalls
    /\ pc' = "decode"
    /\ reader' = [off |-> Len(input), lastByte |-> FALSE, pos |-> 0]
    /\ UNCHANGED <<val, encOut, encErr, input, stack, result, err, w,
                   fillVars, own, calls>>

\* The caller calls Decode on its Decoder once more.
DecoderDecodeCall ==
    /\ pc = "done"
    /\ own
    /\ Len(calls) < MaxCalls
    /\ pc' = "decode"
    /\ UNCHANGED <<val, encOut, encErr, input, reader, stack, result, err, w,
                   fillVars, own, calls>>

\* Decode calls Decoder.Decode, which reads the first token.
DecodeFirstToken ==
    /\ pc = "decode"
    /\ \E tk \in {Token(input, reader)} :
          \E st \in {decode_first(tk)} : Stepped(st, tk.br)

\* parse_list reads the next token.
ParseListToken ==
    /\ pc = "parse"
    /\ \E tk \in {Token(input, reader)} :
          \E st \in {parse_list_turn(stack, tk)} : Stepped(st, tk.br)

\* FillData(out_intfc, in_intfc).  A panic leaves in the destination what
\* was set before it.
FillDataCall ==
    /\ pc = "fill"
    /\ \E r \in {FillData(out_intfc, in_intfc)} :
          /\ pc' = IF IsPanic(r.err) THEN "panic" ELSE "filled"
          /\ fillErr' = r.err
          /\ out_intfc' = IF out_intfc.v = NoValue THEN out_intfc
                          ELSE Ptr([out_intfc.v EXCEPT !.val = r.val])
    /\ UNCHANGED <<val, encOut, encErr, input, reader, stack, result, err, w,
                   in_intfc, own, calls>>

\* The caller hands the value DecodeString(input) returned to FillData.
FillResult ==
    /\ pc = "done"
    /\ ~own
    /\ val = NoValue
    /\ err = NoErr
    /\ result \in {TestData[i].Decoded : i \in 1..Len(TestData)}
    /\ in_intfc = NoValue
    /\ \E T \in StructTypes \cup SliceTypes \cup {Basic("string"), Basic("int64")} :
          out_intfc' = Ptr(Settable(T, Zero(T), FALSE))
    /\ in_intfc' = result
    /\ pc' = "fill"
    /\ UNCHANGED <<val, encOut, encErr, input, reader, stack, result, err, w,
                   fillErr, own, calls>>

\* The caller hands the value DecodeString(input) returned to EncodeToString.
EncodeResult ==
    /\ pc = "done"
    /\ ~own
    /\ val = NoValue
    /\ err = NoErr
    /\ result # Nil
    /\ val' = result
    /\ pc' = "encode"
    /\ UNCHANGED <<encOut, encErr, input, reader, stack, result, err, w, fillVars,
                   own, calls>>

Next ==
    \/ EncodeToStringCall
    \/ EncodeCall
    \/ DecodeStringCall
    \/ DecodeFirstToken
    \/ ParseListToken
    \/ EncodeResult
    \/ FillDataCall
    \/ FillResult
    \/ DecoderDecodeCall

Spec == Init /\ [][Next]_vars

-----------------------------------------------------------------------------
(* The program: a caller of DecodeString, or of Decode on its own Decoder *)

MaxTextLen == 3

\* Every text of up to MaxTextLen bytes, and the longer texts in full.
DecoderTexts ==
    StringsUpTo(RawAlphabet, MaxTextLen)
    \cup {TestData[i].Encoded : i \in 1..Len(TestData)}
    \cup MalformedTexts \cup IntTexts \cup DuplicateKeyTexts \cup LengthTexts

DecoderInit ==
    /\ val = NoValue
    /\ encOut = ""
    /\ encErr = NoErr
    /\ reader = new_reader
    /\ stack = <<>>
    /\ pc = "decode"
    /\ result = Nil
    /\ err = NoErr
    /\ w = NoValue
    /\ out_intfc = NoValue
    /\ in_intfc = NoValue
    /\ fillErr = NoErr
    /\ calls = <<>>
    /\ \/ input \in DecoderTexts /\ own = FALSE
       \/ input \in {Concat(es) : es \in SeqsUpTo(Encodings, MaxParts)} /\ own = TRUE
       \/ input \in {e \o t : e \in {"", "le", "0:"}, t \in Trailers} /\ own = TRUE

DecoderNext ==
    \/ DecodeFirstToken
    \/ ParseListToken
    \/ DecoderDecodeCall

\* Decoder.Decode runs on the caller's thread until it returns: a call that
\* has begun takes its next token.
DecoderSpec ==
    /\ DecoderInit
    /\ [][DecoderNext]_vars
    /\ WF_vars(DecodeFirstToken)
    /\ WF_vars(ParseListToken)

-----------------------------------------------------------------------------
(* Round trip and canonical order *)

\* C1: for every generic value v (byte strings, int64, lists, string-keyed
\* dictionaries, nested), EncodeToString(v) succeeds, and DecodeString of
\* its result succeeds and returns a value equal to v.
C1_RoundTrip ==
    IsGeneric(val) =>
        /\ pc # "panic"
        /\ pc \in {"encoded", "decode", "parse", "done"} => encErr = NoErr
        /\ pc = "done" => (err = NoErr /\ result = val)

C1_Witness ==
    /\ pc = "done"
    /\ val = Map([foo |-> Slice(<<Str("l1:de")>>), bar |-> Int64(-42)])
    /\ encOut = "d3:bari-42e3:fool5:l1:deee"
    /\ result = val

\* The fields of a record as a mapping from field name to field value.
FieldMap(fields) ==
    [name \in {fields[i].name : i \in 1..Len(fields)} |->
        (CHOOSE f \in {fields[i] : i \in 1..Len(fields)} : f.name = name).val]

\* The encoding of v in which every dictionary has its pairs in ascending
\* order of the key bytes.
RECURSIVE CanonicalEncoding(_)
RECURSIVE CanonicalPairs(_, _)
CanonicalPairs(m, S) ==
    IF S = {} THEN ""
    ELSE LET k == CHOOSE k \in S : \A j \in S \ {k} : StrLess(k, j)
         IN  FormatInt(Len(k)) \o ":" \o k \o CanonicalEncoding(m[k])
               \o CanonicalPairs(m, S \ {k})

RECURSIVE CanonicalElements(_)
CanonicalElements(l) ==
    IF Len(l) = 0 THEN ""
    ELSE CanonicalEncoding(Head(l)) \o CanonicalElements(Tail(l))

CanonicalEncoding(v) ==
    IF v.t = "map" THEN "d" \o CanonicalPairs(v.v, DOMAIN v.v) \o "e"
    ELSE IF v.t = "struct"
    THEN "d" \o CanonicalPairs(FieldMap(v.v), DOMAIN FieldMap(v.v)) \o "e"
    ELSE IF v.t = "slice" THEN "l" \o CanonicalElements(v.v) \o "e"
    ELSE Encode(v, 0).out

\* C3: whatever the order in which the keys of a mapping are enumerated,
\* at every nesting level, Encode writes the pairs in ascending order of the
\* key bytes: keys foo and bar always give bar before foo.
C3_CanonicalOrder ==
    (pc = "encoded" /\ encErr = NoErr) => encOut = CanonicalEncoding(val)

C3_Witness ==
    /\ pc = "encoded"
    /\ val = Map([foo |-> Map([bar |-> Int64(0)]), bar |-> Str("l1:de")])
    /\ encOut = "d3:bar5:l1:de3:food3:bari0eee"

-----------------------------------------------------------------------------
(* Dictionaries *)

\* The innermost call in progress.
Top == stack[Len(stack)]

\* This step ends the innermost call: it returns to its caller.
TopReturns == pc = "parse" /\ (pc' = "done" \/ Len(stack') < Len(stack))

\* The last part of an error: what the innermost failing call reported.
Cause(e) == IF e = NoErr THEN "" ELSE e[Len(e)]

\* C7: when the body of a dictionary, as a flat sequence of values, has an
\* odd number of elements, Decode returns the error of the odd count and no
\* dictionary: so for DecodeString("d3:bar4:spam3:foo").
C7_OddCount ==
    /\ [][(TopReturns /\ Top.fn = "parse_dict" /\ Len(Top.l) % 2 = 1)
            => (/\ pc' = "done"
                /\ result' = Nil
                /\ Cause(err') = "odd number of elements in dict")]_vars
    /\ [](pc = "done" /\ input = "d3:bar4:spam3:foo"
            => (/\ result = Nil
                /\ err = <<"error parsing dict",
                           "odd number of elements in dict">>))

C7_Witness ==
    /\ pc = "done"
    /\ input = "ld3:baree"
    /\ result = Nil
    /\ err = <<"error parsing list", "odd number of elements in dict">>

\* Some element of l in a key position (the 1st, 3rd, ...) is no string.
HasBadKey(l) == \E i \in 1..Len(l) : i % 2 = 1 /\ l[i].t # "string"

\* Every dictionary in v has only strings as keys.
RECURSIVE StringKeyed(_)
StringKeyed(v) ==
    IF v.t = "map"
    THEN \A k \in DOMAIN v.v : k \in STRING /\ StringKeyed(v.v[k])
    ELSE IF v.t = "slice" THEN \A i \in 1..Len(v.v) : StringKeyed(v.v[i])
    ELSE TRUE

\* C8: when an element in a key position of a dictionary's body is an
\* integer, a list or a dictionary, Decode returns an error and no value;
\* every dictionary Decode returns has only byte-string keys.
C8_StringKeys ==
    /\ [][(TopReturns /\ Top.fn = "parse_dict" /\ HasBadKey(Top.l))
            => (pc' = "done" /\ result' = Nil /\ err' # NoErr)]_vars
    /\ [](pc = "done" => StringKeyed(result))

C8_Witness ==
    /\ pc = "done"
    /\ input = "d3:bari1ei2e3:fooe"
    /\ result = Nil
    /\ err = <<"error parsing dict", "invalid type for dictionary key int64">>

-----------------------------------------------------------------------------
(* Encoding errors *)

\* v holds, at some depth, a value of a kind without a wire mapping.
RECURSIVE HasNoWire(_)
HasNoWire(v) ==
    IF v.t = "bool" THEN TRUE
    ELSE IF v.t = "slice" THEN \E i \in 1..Len(v.v) : HasNoWire(v.v[i])
    ELSE IF v.t = "map" THEN \E k \in DOMAIN v.v : HasNoWire(v.v[k])
    ELSE IF v.t = "struct" THEN \E i \in 1..Len(v.v) : HasNoWire(v.v[i].val)
    ELSE FALSE

\* v holds, at some depth, a nil interface.
RECURSIVE HasNil(_)
HasNil(v) ==
    IF v.t = "nil" THEN TRUE
    ELSE IF v.t = "slice" THEN \E i \in 1..Len(v.v) : HasNil(v.v[i])
    ELSE IF v.t = "map" THEN \E k \in DOMAIN v.v : HasNil(v.v[k])
    ELSE IF v.t = "struct" THEN \E i \in 1..Len(v.v) : HasNil(v.v[i].val)
    ELSE FALSE

NullReferences == {Nil, Ptr(NoValue)}

\* C11: Encode of an empty reference (the untyped nil or a nil pointer), at
\* the top level, as an element of a list or as a value of a mapping, writes
\* 3:nil in its place and returns no error.
C11_NilEncoding ==
    /\ val \in NullReferences =>
          /\ pc # "panic"
          /\ pc = "encoded" => (encErr = NoErr /\ encOut = "3:nil")
    /\ val \in {Slice(<<x>>) : x \in NullReferences} =>
          /\ pc # "panic"
          /\ pc = "encoded" => (encErr = NoErr /\ encOut = "l3:nile")
    /\ val \in {Map([bar |-> x]) : x \in NullReferences} =>
          /\ pc # "panic"
          /\ pc = "encoded" => (encErr = NoErr /\ encOut = "d3:bar3:nile")

\* What C11 says, for nil pointers alone.
NilPointerEncoding ==
    /\ (pc = "encoded" /\ val = Ptr(NoValue)) =>
          (encErr = NoErr /\ encOut = "3:nil")
    /\ (pc = "encoded" /\ val = Slice(<<Ptr(NoValue)>>)) =>
          (encErr = NoErr /\ encOut = "l3:nile")
    /\ (pc = "encoded" /\ val = Map([bar |-> Ptr(NoValue)])) =>
          (encErr = NoErr /\ encOut = "d3:bar3:nile")
    /\ val \in {Ptr(NoValue), Slice(<<Ptr(NoValue)>>), Map([bar |-> Ptr(NoValue)])}
          => pc # "panic"

\* C12: when a write to the destination fails during Encode, whatever the
\* kind of the value, Encode returns an error: never nil.
C12_WriteFailure ==
    (pc = "written" /\ w.failed) => encErr # NoErr

\* C13: encoding a record gives the bytes, and the outcome, of encoding the
\* mapping from each declared field name to the field's value, whatever the
\* order the fields are declared in.
C13_StructAsMap ==
    val.t = "struct" =>
        LET m == EncodeToString(Map(FieldMap(val.v)), 0)
        IN  /\ pc = "panic" => IsPanic(m.err)
            /\ pc = "encoded" => (encOut = m.s /\ encErr = m.err)

\* Every field of the record v is exported.
AllExported(v) == \A i \in 1..Len(v.v) : IsExported(v.v[i].name)

\* What C13 says, for records without an unexported field.
ExportedStructAsMap ==
    (val.t = "struct" /\ AllExported(val)) =>
        LET m == EncodeToString(Map(FieldMap(val.v)), 0)
        IN  /\ pc = "panic" => IsPanic(m.err)
            /\ pc = "encoded" => (encOut = m.s /\ encErr = m.err)

-----------------------------------------------------------------------------
(* Malformed and empty input *)

RECURSIVE DigitsOnly(_)
DigitsOnly(s) ==
    Len(s) = 0 \/ (Head(s) \in {"0", "1", "2", "3", "4", "5", "6", "7", "8", "9"}
                   /\ DigitsOnly(Tail(s)))

\* s is i, an optional -, and one or more digits, and ends there.
IntWithoutEnd(s) ==
    /\ Len(s) >= 2
    /\ Head(s) = "i"
    /\ LET d == IF Byte(s, 2) = "-" THEN SubSeq(s, 3, Len(s)) ELSE Tail(s)
       IN  Len(d) >= 1 /\ DigitsOnly(d)

\* C4: decoding an integer whose terminator e is missing before the end of
\* the input (DecodeString("i3")) returns a non-nil error, neither a
\* truncated integer nor an absent result without error.
C4_MissingTerminator ==
    (pc = "done" /\ ~own /\ val = NoValue /\ IntWithoutEnd(input)) => err # NoErr

\* C5: when the input ends while a list or a dictionary is open, at any
\* depth, DecodeString returns a non-nil error, never the children
\* collected so far as a completed value.
C5_OpenAtEnd ==
    [][(pc = "parse" /\ Token(input, reader).err = EOF)
         => (pc' = "done" /\ result' = Nil /\ err' # NoErr)]_vars

\* C6: a syntax error of the token scanner while the children of a list or
\* a dictionary are collected, at any depth, ends the decode call with a
\* non-nil error and no value.
C6_SyntaxErrorTerminal ==
    [][(pc = "parse" /\ Token(input, reader).err \notin {NoErr, EOF})
         => (pc' = "done" /\ result' = Nil /\ err' # NoErr)]_vars

\* C9: DecodeString returns nil with a nil error exactly when the input is
\* empty.
C9_NilOnlyForEmpty ==
    (pc = "done" /\ ~own /\ val = NoValue) =>
        ((result.t = "nil" /\ err = NoErr) <=> input = "")

-----------------------------------------------------------------------------
(* Canonical texts and the test table *)

DigitSet == {"0", "1", "2", "3", "4", "5", "6", "7", "8", "9"}

\* The place of the last digit of the run of digits of s that starts after p.
RECURSIVE DigitsEnd(_, _)
DigitsEnd(s, p) ==
    IF p < Len(s) /\ Byte(s, p + 1) \in DigitSet THEN DigitsEnd(s, p + 1) ELSE p

\* d is a decimal number in minimal form.
MinimalDecimal(d) == Len(d) >= 1 /\ (Len(d) = 1 \/ Head(d) # "0")

\* The end of the canonical byte string of s that starts after p, or -1.
CanonStringEnd(s, p) ==
    LET r == DigitsEnd(s, p)
        d == SubSeq(s, p + 1, r)
    IN  IF MinimalDecimal(d) /\ r < Len(s) /\ Byte(s, r + 1) = ":"
           /\ r + 1 + DigitsValue(d, 0) <= Len(s)
        THEN r + 1 + DigitsValue(d, 0) ELSE -1

\* The bytes of the canonical byte string that ends at q and starts after p.
CanonStringBody(s, p, q) == SubSeq(s, DigitsEnd(s, p) + 2, q)

\* The end of the canonical integer of s that starts after p, or -1; the
\* integer is one of int64.
CanonIntEnd(s, p) ==
    LET neg == p + 1 < Len(s) /\ Byte(s, p + 2) = "-"
        q   == IF neg THEN p + 2 ELSE p + 1
        r   == DigitsEnd(s, q)
        d   == SubSeq(s, q + 1, r)
    IN  IF MinimalDecimal(d) /\ ~(neg /\ d = "0")
           /\ ~DigitsGreater(d, IF neg THEN MinInt64Digits ELSE MaxInt64Digits)
           /\ r < Len(s) /\ Byte(s, r + 1) = "e"
        THEN r + 1 ELSE -1

\* The end of the canonical value of s that starts after p, or -1; of the
\* rest of a list; of the rest of a dictionary whose last key was prev.
RECURSIVE CanonValueEnd(_, _)
RECURSIVE CanonListEnd(_, _)
RECURSIVE CanonDictEnd(_, _, _)
CanonValueEnd(s, p) ==
    IF p < 0 \/ p >= Len(s) THEN -1
    ELSE IF Byte(s, p + 1) = "i" THEN CanonIntEnd(s, p)
    ELSE IF Byte(s, p + 1) \in DigitSet THEN CanonStringEnd(s, p)
    ELSE IF Byte(s, p + 1) = "l" THEN CanonListEnd(s, p + 1)
    ELSE IF Byte(s, p + 1) = "d" THEN CanonDictEnd(s, p + 1, <<>>)
    ELSE -1

CanonListEnd(s, p) ==
    IF p < 0 \/ p >= Len(s) THEN -1
    ELSE IF Byte(s, p + 1) = "e" THEN p + 1
    ELSE CanonListEnd(s, CanonValueEnd(s, p))

CanonDictEnd(s, p, prev) ==
    IF p < 0 \/ p >= Len(s) THEN -1
    ELSE IF Byte(s, p + 1) = "e" THEN p + 1
    ELSE IF Byte(s, p + 1) \notin DigitSet THEN -1
    ELSE LET q   == CanonStringEnd(s, p)
             key == CanonStringBody(s, p, q)
         IN  IF q = -1 THEN -1
             ELSE IF prev # <<>> /\ ~StrLess(prev[1], key) THEN -1
             ELSE CanonDictEnd(s, CanonValueEnd(s, q), <<key>>)

\* s is one canonical bencode text: every container closed by e, dictionary
\* keys unique and ascending, integers and lengths in minimal decimal form.
Canonical(s) == Len(s) > 0 /\ CanonValueEnd(s, 0) = Len(s)

\* DecodeString of a canonical text succeeds, and EncodeToString of the
\* value it returned gives the text back.
CanonicalTextRoundTrip ==
    Canonical(input) =>
        /\ (pc = "done" /\ ~own /\ val = NoValue) => (err = NoErr /\ result.t # "nil")
        /\ (pc = "encoded" /\ val = result) =>
              (encErr = NoErr /\ encOut = input)

\* Every pair of the test table holds in both directions.
TestTableHolds ==
    \A i \in 1..Len(TestData) :
        /\ (pc = "done" /\ ~own /\ val = NoValue /\ input = TestData[i].Encoded)
              => (err = NoErr /\ result = TestData[i].Decoded)
        /\ (pc = "encoded" /\ input = "" /\ val = TestData[i].Decoded)
              => (encErr = NoErr /\ encOut = TestData[i].Encoded)

\* C2: for every canonical bencode text s, DecodeString(s) succeeds and
\* EncodeToString of the value returns exactly s; and each (Encoded,
\* Decoded) pair of the test table holds in both directions.
C2_CanonicalAndTable == CanonicalTextRoundTrip /\ TestTableHolds

-----------------------------------------------------------------------------
(* Coercion into text and integers *)

\* The destination FillData was handed a pointer to.
Dest == out_intfc.v

\* FillData is about to be called with a destination of one of the kinds.
FillInto(kinds) == pc = "fill" /\ Dest # NoValue /\ Dest.ty.kind \in kinds

\* The call of this step returned nil and left v in the destination.
FilledWith(v) ==
    pc' = "filled" /\ fillErr' = NoErr /\ out_intfc'.v.val = v

\* The call of this step returned an error and left the destination alone.
FailedUnchanged ==
    pc' = "filled" /\ fillErr' # NoErr /\ out_intfc' = out_intfc

\* C14: FillData into a text destination from an integer source n of any
\* width and signedness sets the destination to the decimal representation
\* of n and returns no error: Int(100000) gives "100000".
C14_IntToString ==
    [][(FillInto({"string"}) /\ is_kind_int(in_intfc.t))
         => FilledWith(Str(FormatInt(in_intfc.v)))]_vars

\* What C14 says, for the sources of a signed kind alone.
SignedIntToString ==
    [][(FillInto({"string"}) /\ in_intfc.t \in SignedKinds)
         => FilledWith(Str(FormatInt(in_intfc.v)))]_vars

\* d is one or more decimal digits whose number is at most that of max.
DecimalUpTo(d, max) ==
    Len(d) > 0 /\ DigitsOnly(d) /\ ~DigitsGreater(StripZeros(d), max)

\* The number a text stands for in base 10: with an optional sign and in
\* the range of int64 for a signed destination, without a sign and in the
\* range of uint64 for an unsigned one; <<>> for any other text.
NumberOf(s, signed) ==
    IF ~signed
    THEN IF DecimalUpTo(s, MaxUint64Digits) THEN <<DigitsValue(s, 0)>> ELSE <<>>
    ELSE IF Len(s) > 0 /\ Head(s) = "-"
    THEN IF DecimalUpTo(Tail(s), MinInt64Digits)
         THEN <<0 - DigitsValue(Tail(s), 0)>> ELSE <<>>
    ELSE IF Len(s) > 0 /\ Head(s) = "+"
    THEN IF DecimalUpTo(Tail(s), MaxInt64Digits)
         THEN <<DigitsValue(Tail(s), 0)>> ELSE <<>>
    ELSE IF DecimalUpTo(s, MaxInt64Digits) THEN <<DigitsValue(s, 0)>> ELSE <<>>

\* The integer of the kind that is congruent to n modulo 2^Bits(kind).
Reduced(n, kind) ==
    IF Bits(kind) >= 32
    THEN IF kind \in SignedKinds \/ n >= 0 THEN n
         ELSE TwoToThePlus(Bits(kind), n)
    ELSE LET lo == IF kind \in SignedKinds THEN 0 - 2 ^ (Bits(kind) - 1) ELSE 0
         IN  CHOOSE r \in lo..(lo + 2 ^ Bits(kind) - 1) :
                (r - n) % (2 ^ Bits(kind)) = 0

\* C15: FillData into an integer destination from a Str source parses the
\* text in base 10, signed for a signed destination and unsigned for an
\* unsigned one, and stores the number (in the destination's width); on a
\* text that is no such number it returns an error and leaves the
\* destination unchanged.  Str("42") into an int32 gives 42, and a text
\* with a leading - into an unsigned destination fails.
C15_StringToInt ==
    [][(FillInto(SignedKinds \cup UnsignedKinds) /\ in_intfc.t = "string")
         => LET kind == Dest.ty.kind
                n    == NumberOf(in_intfc.v, kind \in SignedKinds)
            IN  IF n # <<>> THEN FilledWith(IntOf(kind, Reduced(n[1], kind)))
                ELSE FailedUnchanged]_vars

C15_Witness ==
    /\ pc = "filled"
    /\ in_intfc = Str("42")
    /\ Dest = Settable(Basic("int32"), IntOf("int32", 42), FALSE)
    /\ fillErr = NoErr

\* A text with a leading - was refused for an unsigned destination.
C15_WitnessUnsigned ==
    /\ pc = "filled"
    /\ in_intfc = Str("-1")
    /\ Dest = Settable(Basic("uint8"), IntOf("uint8", 7), FALSE)
    /\ fillErr = <<"strconv.ParseUint: invalid syntax">>

\* C20: FillData into an integer destination of w bits from an Int source n
\* never fails and stores n reduced modulo 2^w in the destination's
\* signedness: Int(300) into an int8 gives 44, Int(-1) into a uint8 255.
C20_IntToInt ==
    [][(FillInto(SignedKinds \cup UnsignedKinds) /\ in_intfc.t = "int64")
         => FilledWith(IntOf(Dest.ty.kind, Reduced(in_intfc.v, Dest.ty.kind)))]_vars

\* What C20 says, for every destination but one of a defined type whose
\* kind is the source's.
OtherKindIntToInt ==
    [][(/\ FillInto(SignedKinds \cup UnsignedKinds)
        /\ in_intfc.t = "int64"
        /\ Dest.ty \notin {Named("ID", "int64")})
         => FilledWith(IntOf(Dest.ty.kind, Reduced(in_intfc.v, Dest.ty.kind)))]_vars

\* Int(300) went into an int8 as 44.
TruncatedToInt8 ==
    /\ pc = "filled"
    /\ in_intfc = Int64(300)
    /\ Dest = Settable(Basic("int8"), IntOf("int8", 44), FALSE)

-----------------------------------------------------------------------------
(* Coercion into records and sequences *)

\* The part of a tag before its first comma.
TagName(tag) ==
    LET k == CHOOSE k \in 0..Len(tag) :
                /\ k = Len(tag) \/ Byte(tag, k + 1) = ","
                /\ \A j \in 1..k : Byte(tag, j) # ","
    IN  SubSeq(tag, 1, k)

\* The key of the entry for a field: the tag's name, or else the field's.
EntryKey(f) == IF TagName(f.tag) # "" THEN TagName(f.tag) ELSE f.name

\* The coercion of the source x into a variable of type T that holds old.
Coerced(T, old, x) == set_val_coerce(Settable(T, old, FALSE), x)

\* What field i of the destination is to hold after FillData from the
\* dictionary d, and the error of its coercion.
FieldWanted(i, d) ==
    LET f == Dest.ty.fields[i]
    IN  IF EntryKey(f) \in DOMAIN d
        THEN Coerced(f.type, Dest.val.v[i].val, d[EntryKey(f)])
        ELSE Filled(Dest.val.v[i].val, NoErr)

\* The record of the destination was filled from the dictionary d: every
\* field holds what it is to hold, or else, when the coercion of an entry
\* fails, the call did not succeed.
StructFilledFrom(d) ==
    LET n == Len(Dest.ty.fields)
    IN  IF \A i \in 1..n : FieldWanted(i, d).err = NoErr
        THEN /\ pc' = "filled"
             /\ fillErr' = NoErr
             /\ \A i \in 1..n :
                   out_intfc'.v.val.v[i].val = FieldWanted(i, d).val
        ELSE ~(pc' = "filled" /\ fillErr' = NoErr)

\* C16: FillData into a record from a Dict looks up, for each field, the
\* entry whose key is the first comma-separated part of the field's bencode
\* tag when that is not empty, else the field's name; a field without an
\* entry keeps its value, a field with one is set to the coercion of the
\* entry into the field's type, and the other entries are ignored.
C16_StructFromDict ==
    [][(FillInto({"struct"}) /\ in_intfc.t = "map")
         => StructFilledFrom(in_intfc.v)]_vars

\* Every field of the struct type T, at any depth, is exported.
RECURSIVE FieldsExported(_)
FieldsExported(T) ==
    \A i \in 1..Len(T.fields) :
        IsExported(T.fields[i].name) /\ FieldsExported(T.fields[i].type)

\* What C16 says, for the records without an unexported field.
ExportedStructFromDict ==
    [][(FillInto({"struct"}) /\ in_intfc.t = "map" /\ FieldsExported(Dest.ty))
         => StructFilledFrom(in_intfc.v)]_vars

\* Author and Length were set from the keys of their tags, and Name and
\* Tags, without an entry, kept their values.
FilledByTag ==
    /\ pc = "filled"
    /\ fillErr = NoErr
    /\ in_intfc = Map([author |-> Str("Alice"), length |-> Int64(100000)])
    /\ Dest.ty = InfoType
    /\ Dest.val = Struct(<< [name |-> "Author", val |-> Str("Alice")],
                            [name |-> "Length", val |-> IntOf("int32", 100000)],
                            [name |-> "Name", val |-> Str("old")],
                            [name |-> "Tags", val |-> Slice(<<Str("")>>)] >>)

\* The sequence of the destination was built from the list l.
SliceFilledFrom(l) ==
    LET T == Dest.ty.elem[1]
    IN  (\A i \in 1..Len(l) : Coerced(T, Zero(T), l[i]).err = NoErr)
           => FilledWith(Slice([i \in 1..Len(l) |-> Coerced(T, Zero(T), l[i]).val]))

\* C17: FillData into a sequence of element type T from a List of length
\* n >= 0 whose elements all coerce returns no error and sets the
\* destination to a new sequence of length n, the i-th element being the
\* coercion of the i-th source element into T; for n = 0 an empty one.
C17_ListToSequence ==
    [][(FillInto({"slice"}) /\ in_intfc.t = "slice")
         => SliceFilledFrom(in_intfc.v)]_vars

\* What C17 says, for the lists that are not empty.
NonEmptyListToSequence ==
    [][(FillInto({"slice"}) /\ in_intfc.t = "slice" /\ Len(in_intfc.v) > 0)
         => SliceFilledFrom(in_intfc.v)]_vars

\* The kinds of the values the decoder returns.
IntStrListDict == {"int64", "string", "slice", "map"}

\* There is no rule for coercing a source of kind in into the type T.
NoCoercionRule(T, x) ==
    \/ T.kind \in {"string"} \cup SignedKinds \cup UnsignedKinds
          /\ x.t \in {"slice", "map"}
    \/ T.kind = "struct" /\ x.t \in {"int64", "string", "slice"}
    \/ T.kind = "slice" /\ x.t \in {"int64", "string", "map"}
    \/ T.kind = "bool" /\ x.t \in IntStrListDict
    \/ T.kind = "map" /\ x.t \in IntStrListDict /\ TypeOf(x) # T

\* C18: for every pair of source and destination kinds without a coercion
\* rule, FillData returns an error: it neither succeeds nor aborts.
C18_NoRuleFails ==
    [][(FillInto({Dest.ty.kind}) /\ NoCoercionRule(Dest.ty, in_intfc))
         => (pc' = "filled" /\ fillErr' # NoErr)]_vars

\* What C18 says, for every pair but an Int into a sequence.
NoRuleFailsButIntToSlice ==
    [][(/\ FillInto({Dest.ty.kind})
        /\ NoCoercionRule(Dest.ty, in_intfc)
        /\ ~(Dest.ty.kind = "slice" /\ in_intfc.t = "int64"))
         => (pc' = "filled" /\ fillErr' # NoErr /\ out_intfc' = out_intfc)]_vars

-----------------------------------------------------------------------------
(* Integer scanning *)

DigitsAndMinus(s) == \A j \in 1..Len(s) : Byte(s, j) \in DigitSet \cup {"-"}

\* s is i, then digits and - signs in any number and order, then e.
IntegerText(s) ==
    /\ Len(s) >= 2
    /\ Head(s) = "i"
    /\ Byte(s, Len(s)) = "e"
    /\ DigitsAndMinus(SubSeq(s, 2, Len(s) - 1))

\* The digits and signs between the i and the e.
IntegerBody(s) == SubSeq(s, 2, Len(s) - 1)

\* D is an optional single leading - and one or more digits, and its
\* value lies in the range of int64.
InInt64(D) ==
    LET neg == Len(D) > 0 /\ Head(D) = "-"
        d   == IF neg THEN Tail(D) ELSE D
    IN  DecimalUpTo(d, IF neg THEN MinInt64Digits ELSE MaxInt64Digits)

ValueOf(D) ==
    IF Head(D) = "-" THEN 0 - DigitsValue(Tail(D), 0) ELSE DigitsValue(D, 0)

\* C19: for the input i D e, where D is an optional leading - and one or
\* more digits, the decoder returns the int64 value of D when it lies in
\* the range of int64, with leading zeros and -0 taken (i007e gives 7,
\* i-0e gives 0, i-42e gives -42); when the value is out of the range, D
\* is empty, D is a lone -, or a - is anywhere but first, it returns an
\* error and no integer.
C19_IntegerScanning ==
    (pc = "done" /\ ~own /\ val = NoValue /\ IntegerText(input)) =>
        IF InInt64(IntegerBody(input))
        THEN err = NoErr /\ result = Int64(ValueOf(IntegerBody(input)))
        ELSE err # NoErr /\ result = Nil

C19_Witness ==
    /\ pc = "done"
    /\ input = "i007e"
    /\ result = Int64(7)
    /\ err = NoErr

\* A number one above the range of int64 was refused.
C19_WitnessRange ==
    /\ pc = "done"
    /\ input = "i9223372036854775808e"
    /\ result = Nil
    /\ err = <<"strconv.ParseInt: value out of range">>

-----------------------------------------------------------------------------
(* Dictionaries with a key more than once *)

\* The flat list l of a dictionary's body is pairs with string keys.
IsPairs(l) ==
    /\ Len(l) % 2 = 0
    /\ \A j \in 1..(Len(l) \div 2) : l[2 * j - 1].t = "string"

PairKeys(l) == {l[2 * j - 1].v : j \in 1..(Len(l) \div 2)}

HasDuplicateKey(l) ==
    \E i, j \in 1..(Len(l) \div 2) : i < j /\ l[2 * i - 1] = l[2 * j - 1]

\* The value paired with the last occurrence of the key k in l.
LastValue(l, k) ==
    LET j == CHOOSE j \in 1..(Len(l) \div 2) :
                 /\ l[2 * j - 1] = Str(k)
                 /\ \A i \in (j + 1)..(Len(l) \div 2) : l[2 * i - 1] # Str(k)
    IN  l[2 * j]

\* What the innermost call hands to its caller in this step: the value
\* Decode returns, or the element its caller's list has got.
Returned ==
    IF Len(stack) = 1 THEN result'
    ELSE stack'[Len(stack) - 1].l[Len(stack'[Len(stack) - 1].l)]

\* C21: when parse_dict returns for a body of key/value pairs in which a
\* key occurs more than once, it returns no error and a mapping with one
\* entry per distinct key, whose value is the one paired with the key's last
\* occurrence in the input.
C21_LastKeyWins ==
    [][(/\ pc = "parse"
        /\ stack[Len(stack)].fn = "parse_dict"
        /\ IsPairs(stack[Len(stack)].l)
        /\ HasDuplicateKey(stack[Len(stack)].l)
        /\ Len(stack') < Len(stack))
       => LET l == stack[Len(stack)].l
          IN  /\ Len(stack') = Len(stack) - 1
              /\ Len(stack) = 1 => (pc' = "done" /\ err' = NoErr)
              /\ Len(stack) > 1 =>
                     Len(stack'[Len(stack) - 1].l) = Len(stack[Len(stack) - 1].l) + 1
              /\ Returned = Map([k \in PairKeys(l) |-> LastValue(l, k)])]_vars

\* A dictionary with foo three times and bar once has been decoded.
C21_Witness ==
    /\ pc = "done"
    /\ input = "d3:fooi1e3:bar0:3:fooi2e3:fooi3ee"
    /\ err = NoErr
    /\ result = Map([foo |-> Int64(3), bar |-> Str("")])

\* A dictionary inside a list has a key twice.
C21_WitnessNested ==
    /\ pc = "done"
    /\ input = "ld1:ai1e1:a1:bed1:a1:b1:ai1eee"
    /\ result = Slice(<<Map([a |-> Str("b")]), Map([a |-> Int64(1)])>>)

-----------------------------------------------------------------------------
(* One Decoder over several encodings *)

\* The offset at which the k-th call of Decoder.Decode began to read.
CallStart(k) == IF k = 1 THEN 0 ELSE calls[k - 1].off

\* The bytes of s from offset o on begin with e.
StartsWith(s, o, e) ==
    o + Len(e) <= Len(s) /\ SubSeq(s, o + 1, o + Len(e)) = e

\* C22: a call of Decoder.Decode that begins where a complete encoding
\* begins returns that encoding's value and no error, and has read exactly
\* the bytes of that encoding, whatever follows it; a call that begins at the
\* end of the input returns io.EOF.  So the calls on the concatenation of
\* e1..en return the values of e1..en in that order, and call n+1 the end of
\* the input.
C22_SuccessiveDecodes ==
    own =>
       /\ \A k \in 1..Len(calls) :
             /\ \A enc \in Encodings :
                   StartsWith(input, CallStart(k), enc.e) =>
                      calls[k] = [v |-> enc.v, err |-> NoErr,
                                  off |-> CallStart(k) + Len(enc.e)]
             /\ CallStart(k) = Len(input) =>
                   calls[k] = [v |-> Nil, err |-> EOF, off |-> Len(input)]
       /\ (pc = "done" /\ calls # <<>>) => reader.off = calls[Len(calls)].off

\* Three calls on the encodings of "l1:de" and ["e", 7], one after the other.
C22_Witness ==
    /\ input = "5:l1:del1:ei7ee"
    /\ calls = << [v |-> Str("l1:de"), err |-> NoErr, off |-> 7],
                  [v |-> Slice(<<Str("e"), Int64(7)>>), err |-> NoErr, off |-> 15],
                  [v |-> Nil, err |-> EOF, off |-> 15] >>

\* Bytes that are no encoding follow the value the first call returned.
C22_WitnessTrailer ==
    /\ input = "i-42ex"
    /\ calls = << [v |-> Int64(-42), err |-> NoErr, off |-> 5],
                  [v |-> Nil, err |-> Errorf("unexpected byte"), off |-> 6] >>

-----------------------------------------------------------------------------
(* The cursor *)

\* Decoder.Decode is about to call Token.
AtToken == pc \in {"decode", "parse"}

NextIsDigit ==
    reader.off < Len(input) /\ IsDigit(Byte(input, reader.off + 1))

\* breader.pos is the number of bytes consumed, within the input.
CursorInRange ==
    /\ reader.pos = reader.off
    /\ 0 <= reader.pos
    /\ reader.pos <= Len(input)

\* Where Token pushes a byte back, it has just read that one byte, and the
\* pushback does not fail.
PushbackFollowsRead ==
    (AtToken /\ NextIsDigit) =>
       LET r == Read(input, reader, 1)
       IN  /\ r.err = NoErr
           /\ Len(r.b) = 1
           /\ r.br.lastByte
           /\ UnreadByte(r.br).err = NoErr
           /\ UnreadByte(r.br).br.off = reader.off

\* A Token call that returns a token has moved the cursor on.
TokenAdvances ==
    AtToken =>
       LET tk == Token(input, reader)
       IN  tk.err = NoErr => tk.br.pos >= reader.pos + 1

\* C23: in every state the cursor position is the number of input bytes
\* consumed and lies between 0 and the length of the input; Token's pushback
\* follows a successful read of one byte; a Token call that returns a token
\* leaves the position at least one higher; and every call of Decode
\* returns.
C23_CursorProgress ==
    /\ [](CursorInRange /\ PushbackFollowsRead /\ TokenAdvances)
    /\ (pc = "decode") ~> (pc = "done")

\* Decode has returned for a dictionary and a list in it that both end
\* with the input, after two pushbacks.
C23_Witness ==
    /\ pc = "done"
    /\ input = "d3:barl4:spam"
    /\ reader = [off |-> 13, lastByte |-> TRUE, pos |-> 13]
    /\ result = Map([bar |-> Slice(<<Str("spam")>>)])

-----------------------------------------------------------------------------
(* The length of a byte string *)

NegativeLength == Errorf("negative length specified for string")

\* The bytes from offset o on that get_int takes for the number.
RECURSIVE Accumulated(_, _)
Accumulated(s, o) ==
    IF o < Len(s) /\ (IsDigit(Byte(s, o + 1)) \/ Byte(s, o + 1) = "-")
    THEN Byte(s, o + 1) \o Accumulated(s, o + 1)
    ELSE ""

HasMinus(s) == \E i \in 1..Len(s) : Byte(s, i) = "-"

\* C24: Token never returns the negative-length error of get_string: a
\* length is scanned only after a digit, every length that get_int returns
\* there is >= 0, a length with a - in it ends in an error (the syntax error
\* of ParseInt when a ':' follows it) and no byte string, and a - in the
\* place of a token is an unexpected byte.
C24_NoNegativeLength ==
    AtToken =>
       LET tk == Token(input, reader)
           o == reader.off
           prefix == Accumulated(input, o)
       IN  /\ tk.err # NegativeLength
           /\ NextIsDigit =>
                 LET sz == get_int(input, reader, ":")
                 IN  sz.err = NoErr => sz.tok.v >= 0
           /\ (NextIsDigit /\ HasMinus(prefix)) =>
                 /\ tk.err # NoErr
                 /\ StartsWith(input, o + Len(prefix), ":") =>
                       tk.err = Errorf("strconv.ParseInt: invalid syntax")
           /\ StartsWith(input, o, "-") => tk.err = Errorf("unexpected byte")

\* Decoding 1-2:ab has failed on the length.
C24_Witness ==
    /\ pc = "done"
    /\ input = "1-2:ab"
    /\ result = Nil
    /\ err = Errorf("strconv.ParseInt: invalid syntax")

\* Inside a list the token after l has a - in its length.
C24_WitnessNested ==
    /\ pc = "parse"
    /\ input = "l2-1:abe"
    /\ reader.off = 1
    /\ Token(input, reader).err = Errorf("strconv.ParseInt: invalid syntax")

====
